---- MODULE Spec2Model ----
(***************************************************************************)
(* The real-time transcription relay of src/index.js: one client           *)
(* WebSocket (ws) paired with one upstream recognizer WebSocket (dgWs),    *)
(* the liveness sweeper over wss.clients, and the spoken-punctuation       *)
(* normalizer applySpokenPunctuation.                                      *)
(*                                                                         *)
(* Text is a sequence of one-character strings, so that the regular        *)
(* expressions of the normalizer are computed character by character.      *)
(***************************************************************************)
EXTENDS Integers, Sequences, FiniteSets, TLC

\* ------------------------------------------------------------------------
\* Bounds of the model
\* ------------------------------------------------------------------------

\* Environment events (client frames, upstream messages) one run may deliver.
MaxEvents == 2

\* The same, for a run of two concurrent sessions.
MaxEventsMulti == 1

\* Words and phrases (joined by single spaces) of a text handed to the
\* normalizer.
MaxWords == 3

\* ------------------------------------------------------------------------
\* Characters and the regular-expression classes the normalizer uses
\* ------------------------------------------------------------------------

LowerSeq ==
  <<"a","b","c","d","e","f","g","h","i","j","k","l","m",
    "n","o","p","q","r","s","t","u","v","w","x","y","z">>

UpperSeq ==
  <<"A","B","C","D","E","F","G","H","I","J","K","L","M",
    "N","O","P","Q","R","S","T","U","V","W","X","Y","Z">>

DigitChars == {"0","1","2","3","4","5","6","7","8","9"}

SeqRange(q) == { q[i] : i \in 1..Len(q) }

\* the characters of \w
WordChars ==
  SeqRange(LowerSeq) \cup SeqRange(UpperSeq) \cup DigitChars \cup {"_"}

\* \w of a JavaScript regular expression
IsWordChar(c) == c \in WordChars

\* \s of a JavaScript regular expression (the characters the inputs use)
IsSpace(c) == c \in {" ", "\n", "\t", "\r"}

\* the class [.,!?;:]
IsPunct(c) == c \in {".", ",", "!", "?", ";", ":"}

\* the lower-case form of each upper-case letter
LowerOf ==
  [c \in SeqRange(UpperSeq) |->
     LowerSeq[CHOOSE i \in 1..Len(UpperSeq) : UpperSeq[i] = c]]

\* the i flag: letters compare by their lower-case form
ToLower(c) == IF c \in DOMAIN LowerOf THEN LowerOf[c] ELSE c

\* \b at the position before text[i] (i in 1..Len(text)+1)
WordBoundary(text, i) ==
  LET before == i > 1 /\ IsWordChar(text[i - 1])
      after  == i <= Len(text) /\ IsWordChar(text[i])
  IN  before # after

\* first index >= i that does not hold a whitespace character (Len+1 if none)
RECURSIVE RunEnd(_, _)
RunEnd(text, i) ==
  IF i > Len(text) \/ ~IsSpace(text[i]) THEN i ELSE RunEnd(text, i + 1)

\* Pattern elements: a literal, \s+, \s* and [-\s]?
Lit(s)  == [k |-> "lit", s |-> s]
Sp1     == [k |-> "sp1", s |-> <<>>]
Sp0     == [k |-> "sp0", s |-> <<>>]
SepOpt  == [k |-> "sep", s |-> <<>>]

\* whether the literal lit matches text at i, ignoring case
LitAt(text, i, lit) ==
  /\ i + Len(lit) - 1 <= Len(text)
  /\ \A k \in 1..Len(lit) : ToLower(text[i + k - 1]) = lit[k]

\* The end (index after the last matched character) of pattern pat, from its
\* element j on, matched at text[i]; 0 when it does not match.  The
\* quantified classes are followed by a letter, so the greedy match is the
\* only one.
RECURSIVE MatchFrom(_, _, _, _)
MatchFrom(text, i, pat, j) ==
  IF j > Len(pat) THEN i
  ELSE LET e == pat[j] IN
    CASE e.k = "lit" ->
           IF LitAt(text, i, e.s) THEN MatchFrom(text, i + Len(e.s), pat, j + 1) ELSE 0
      [] e.k = "sp1" ->
           IF RunEnd(text, i) > i THEN MatchFrom(text, RunEnd(text, i), pat, j + 1) ELSE 0
      [] e.k = "sp0" -> MatchFrom(text, RunEnd(text, i), pat, j + 1)
      [] e.k = "sep" ->
           IF i <= Len(text) /\ (text[i] = "-" \/ IsSpace(text[i]))
             THEN MatchFrom(text, i + 1, pat, j + 1)
             ELSE MatchFrom(text, i, pat, j + 1)

\* \b(pat)\b at text[i]: the end of the match, or 0
MatchWord(text, i, pat) ==
  IF ~WordBoundary(text, i) THEN 0
  ELSE LET e == MatchFrom(text, i, pat, 1)
       IN  IF e > 0 /\ WordBoundary(text, e) THEN e ELSE 0

\* \b(alt1|alt2|...)\b at text[i]: the first alternative that matches
RECURSIVE MatchAlts(_, _, _, _)
MatchAlts(text, i, alts, n) ==
  IF n > Len(alts) THEN 0
  ELSE LET e == MatchWord(text, i, alts[n])
       IN  IF e > 0 THEN e ELSE MatchAlts(text, i, alts, n + 1)

\* text.replace(re, rep) with the g flag, from index i on
RECURSIVE ReplaceFrom(_, _, _, _)
ReplaceFrom(text, i, alts, rep) ==
  IF i > Len(text) THEN <<>>
  ELSE LET e == MatchAlts(text, i, alts, 1)
       IN  IF e > 0 THEN rep \o ReplaceFrom(text, e, alts, rep)
                    ELSE <<text[i]>> \o ReplaceFrom(text, i + 1, alts, rep)

ReplaceRule(text, rule) == ReplaceFrom(text, 1, rule.alts, rule.rep)

\* the replacements table, in the order the loop applies it
replacements ==
  << [alts |-> << <<Lit(<<"f","u","l","l">>), Sp1, Lit(<<"s","t","o","p">>)>>,
                  <<Lit(<<"p","e","r","i","o","d">>)>> >>,
      rep  |-> <<".">>],
     [alts |-> << <<Lit(<<"c","o","m","m","a">>)>> >>,
      rep  |-> <<",">>],
     [alts |-> << <<Lit(<<"q","u","e","s","t","i","o","n">>), Sp0, Lit(<<"m","a","r","k">>)>>,
                  <<Lit(<<"q","u","e","s","t","i","o","n","m","a","r","k">>)>> >>,
      rep  |-> <<"?">>],
     [alts |-> << <<Lit(<<"e","x","c","l","a","m","a","t","i","o","n">>), Sp0, Lit(<<"m","a","r","k">>)>>,
                  <<Lit(<<"e","x","c","l","a","m","a","t","i","o","n">>), Sp0, Lit(<<"p","o","i","n","t">>)>>,
                  <<Lit(<<"e","x","c","l","a","m","a","t","i","o","n","m","a","r","k">>)>> >>,
      rep  |-> <<"!">>],
     [alts |-> << <<Lit(<<"c","o","l","o","n">>)>> >>,
      rep  |-> <<":">>],
     [alts |-> << <<Lit(<<"s","e","m","i">>), SepOpt, Lit(<<"c","o","l","o","n">>)>> >>,
      rep  |-> <<";">>],
     [alts |-> << <<Lit(<<"n","e","w">>), Sp1, Lit(<<"l","i","n","e">>)>>,
                  <<Lit(<<"n","e","w","l","i","n","e">>)>> >>,
      rep  |-> <<"\n">>],
     [alts |-> << <<Lit(<<"n","e","w">>), Sp1, Lit(<<"p","a","r","a","g","r","a","p","h">>)>> >>,
      rep  |-> <<"\n", "\n">>] >>

\* for (const { re, rep } of replacements) text = text.replace(re, rep)
RECURSIVE ApplyReplacements(_, _)
ApplyReplacements(text, n) ==
  IF n > Len(replacements) THEN text
  ELSE ApplyReplacements(ReplaceRule(text, replacements[n]), n + 1)

\* SpaceBeforePunct leaving the text as it is
SpaceBeforePunctKept(text, i) == SubSeq(text, i, Len(text))

\* .replace(/\s+([.,!?;:])/g, '$1')
RECURSIVE SpaceBeforePunct(_, _)
SpaceBeforePunct(text, i) ==
  IF i > Len(text) THEN <<>>
  ELSE IF ~IsSpace(text[i]) THEN <<text[i]>> \o SpaceBeforePunct(text, i + 1)
  ELSE LET e == RunEnd(text, i) IN
       IF e <= Len(text) /\ IsPunct(text[e])
         THEN <<text[e]>> \o SpaceBeforePunct(text, e + 1)
         ELSE SubSeq(text, i, e - 1) \o SpaceBeforePunct(text, e)

\* .replace(/([.,!?;:])(?!\s|\n)/g, '$1 ')
RECURSIVE SpaceAfterPunct(_, _)
SpaceAfterPunct(text, i) ==
  IF i > Len(text) THEN <<>>
  ELSE IF IsPunct(text[i]) /\ (i = Len(text) \/ ~IsSpace(text[i + 1]))
         THEN <<text[i], " ">> \o SpaceAfterPunct(text, i + 1)
         ELSE <<text[i]>> \o SpaceAfterPunct(text, i + 1)

\* the last index in i..e-1 that holds a newline, 0 if none
RECURSIVE LastNewline(_, _, _)
LastNewline(text, i, e) ==
  IF e <= i THEN 0
  ELSE IF text[e - 1] = "\n" THEN e - 1 ELSE LastNewline(text, i, e - 1)

\* .replace(/\s+\n/g, '\n')
RECURSIVE SpaceBeforeNewline(_, _)
SpaceBeforeNewline(text, i) ==
  IF i > Len(text) THEN <<>>
  ELSE IF ~IsSpace(text[i]) THEN <<text[i]>> \o SpaceBeforeNewline(text, i + 1)
  ELSE LET e == RunEnd(text, i)
           k == LastNewline(text, i, e)
       IN  IF k > i
             THEN <<"\n">> \o SubSeq(text, k + 1, e - 1) \o SpaceBeforeNewline(text, e)
             ELSE SubSeq(text, i, e - 1) \o SpaceBeforeNewline(text, e)

\* .replace(/\n\s+/g, '\n')
RECURSIVE SpaceAfterNewline(_, _)
SpaceAfterNewline(text, i) ==
  IF i > Len(text) THEN <<>>
  ELSE IF text[i] = "\n" /\ RunEnd(text, i + 1) > i + 1
         THEN <<"\n">> \o SpaceAfterNewline(text, RunEnd(text, i + 1))
         ELSE <<text[i]>> \o SpaceAfterNewline(text, i + 1)

\* .replace(/\s{2,}/g, ' ')
RECURSIVE CollapseSpaces(_, _)
CollapseSpaces(text, i) ==
  IF i > Len(text) THEN <<>>
  ELSE IF ~IsSpace(text[i]) THEN <<text[i]>> \o CollapseSpaces(text, i + 1)
  ELSE LET e == RunEnd(text, i) IN
       IF e - i >= 2 THEN <<" ">> \o CollapseSpaces(text, e)
                     ELSE <<text[i]>> \o CollapseSpaces(text, e)

\* the last index that does not hold a whitespace character, 0 if none
RECURSIVE LastNonSpace(_, _)
LastNonSpace(text, e) ==
  IF e = 0 \/ ~IsSpace(text[e]) THEN e ELSE LastNonSpace(text, e - 1)

\* String.prototype.trim
Trim(text) == SubSeq(text, RunEnd(text, 1), LastNonSpace(text, Len(text)))

\* the chain of replace calls that normalizes the spaces around punctuation
NormalizeSpaces(text) ==
  Trim(CollapseSpaces(
         SpaceAfterNewline(
           SpaceBeforeNewline(
             SpaceAfterPunct(
               SpaceBeforePunct(text, 1), 1), 1), 1), 1))

\* null (a falsy input that is no string)
NullText == <<"(null)">>

\* applySpokenPunctuation without its first line: the replace call on null
\* throws
applySpokenPunctuationNoGuard(input) ==
  IF input = NullText THEN <<"TypeError">>
  ELSE NormalizeSpaces(ApplyReplacements(input, 1))

\* function applySpokenPunctuation(input)
applySpokenPunctuation(input) ==
  IF input = NullText \/ input = <<>> THEN input
  ELSE NormalizeSpaces(ApplyReplacements(input, 1))

\* ------------------------------------------------------------------------
\* Texts handed to the normalizer
\* ------------------------------------------------------------------------

\* What a text is made of: plain words (one with a capital, two that
\* are parts of a spoken phrase), spoken-punctuation phrases, a punctuation
\* symbol and a newline.
Atoms ==
  { <<"a">>,
    <<"F","u","l","l">>,
    <<"s","t","o","p">>,
    <<"s","e","m","i">>,
    <<"p","e","r","i","o","d">>,
    <<"c","o","m","m","a">>,
    <<"c","o","l","o","n">>,
    <<"s","e","m","i","c","o","l","o","n">>,
    <<"s","e","m","i","-","c","o","l","o","n">>,
    <<"n","e","w"," ","l","i","n","e">>,
    <<"n","e","w"," ","p","a","r","a","g","r","a","p","h">>,
    <<".">>,
    <<"\n">> }

\* the words of ws joined by single spaces
RECURSIVE JoinWords(_)
JoinWords(ws) ==
  IF Len(ws) = 0 THEN <<>>
  ELSE IF Len(ws) = 1 THEN ws[1]
  ELSE ws[1] \o <<" ">> \o JoinWords(Tail(ws))

\* every text of one to MaxWords words
WordTexts ==
  { JoinWords(ws) : ws \in UNION { [1..n -> Atoms] : n \in 1..MaxWords } }

\* a spoken-punctuation phrase between two words
InContext(phrase) == <<"a", " ">> \o phrase \o <<" ", "b">>

\* the phrases of the replacements table, as they are spoken
Phrases ==
  { <<"f","u","l","l"," ","s","t","o","p">>,
    <<"p","e","r","i","o","d">>,
    <<"c","o","m","m","a">>,
    <<"q","u","e","s","t","i","o","n"," ","m","a","r","k">>,
    <<"e","x","c","l","a","m","a","t","i","o","n"," ","m","a","r","k">>,
    <<"e","x","c","l","a","m","a","t","i","o","n"," ","p","o","i","n","t">>,
    <<"c","o","l","o","n">>,
    <<"s","e","m","i","c","o","l","o","n">>,
    <<"s","e","m","i"," ","c","o","l","o","n">>,
    <<"s","e","m","i","-","c","o","l","o","n">>,
    <<"n","e","w"," ","l","i","n","e">>,
    <<"n","e","w"," ","p","a","r","a","g","r","a","p","h">> }

PhraseTexts == { InContext(p) : p \in Phrases }

\* a dictated sentence
ExampleText ==
  <<"H","e","a","r","t"," ","i","s"," ","e","n","l","a","r","g","e","d",
    " ","f","u","l","l"," ","s","t","o","p"," ","n","o"," ","o","t","h",
    "e","r"," ","f","i","n","d","i","n","g","s"," ","c","o","m","m","a",
    " ","n","o","r","m","a","l"," ","o","t","h","e","r","w","i","s","e",
    " ","p","e","r","i","o","d">>

\* the inputs of applySpokenPunctuation
Inputs == WordTexts \cup PhraseTexts \cup {ExampleText, <<>>, NullText}

\* ------------------------------------------------------------------------
\* Messages and frames
\* ------------------------------------------------------------------------

\* JSON messages the server sends to the client (type, msg, text, is_final)
Msg(type, msg, text, fin) ==
  [type |-> type, msg |-> msg, text |-> text, is_final |-> fin]

ErrorKeyMsg   == Msg("error", "TranscriptionService API key not configured", <<>>, FALSE)
ErrorDgMsg    == Msg("error", "TranscriptionService error", <<>>, FALSE)
ReadyMsg      == Msg("ready", "", <<>>, FALSE)
DoneMsg       == Msg("done", "", <<>>, FALSE)
WelcomeMsg    == Msg("welcome", "Hello from WS backend", <<>>, FALSE)
EchoMsg(text) == Msg("echo", text, <<>>, FALSE)
TranscriptMsg(text, fin) == Msg("transcript", "", text, fin)

\* A frame from the client as the 'message' listener gets it: (chunk,
\* isBinary).  isBuffer is Buffer.isBuffer(chunk): ws 8 hands every frame
\* over as a Buffer, text frames included, with isBinary telling them apart;
\* earlier releases hand a text frame over as a string.
AudioData == {"a1", "a2"}
TextData  == {"FINISH", "hello"}

ClientFrames ==
  [isBinary : {TRUE}, isBuffer : {TRUE}, data : AudioData]
    \cup [isBinary : {FALSE}, isBuffer : BOOLEAN, data : TextData]

\* Transcript texts the recognizer sends: empty, blank, and "a comma"
BlankText == <<" ">>
SpokenText == <<"a", " ", "c", "o", "m", "m", "a">>

\* A message from the recognizer: json says whether JSON.parse accepts it,
\* alt whether channel.alternatives[0] is there.
UpMsg(json, type, alt, transcript, f, sf) ==
  [json |-> json, type |-> type, alt |-> alt, transcript |-> transcript,
   is_final |-> f, speech_final |-> sf]

UpstreamMessages ==
  { UpMsg(FALSE, "", FALSE, <<>>, FALSE, FALSE),
    UpMsg(TRUE, "Metadata", FALSE, <<>>, FALSE, FALSE),
    UpMsg(TRUE, "Results", FALSE, <<>>, TRUE, FALSE),
    UpMsg(TRUE, "Results", TRUE, <<>>, FALSE, FALSE),
    UpMsg(TRUE, "Results", TRUE, BlankText, TRUE, FALSE) }
    \cup { UpMsg(TRUE, "Results", TRUE, SpokenText, fl[1], fl[2]) :
             fl \in {<<FALSE, FALSE>>, <<TRUE, FALSE>>, <<FALSE, TRUE>>} }

\* ------------------------------------------------------------------------
\* State
\* ------------------------------------------------------------------------

VARIABLES
  sess,     \* one record per client connection (the closure of one 'connection' call)
  apiKey,   \* whether process.env.TRANSCRIPTION_SERVICE_API_KEY is set
  budget,   \* environment events still to be delivered
  input,    \* the text a caller hands to applySpokenPunctuation
  output    \* what applySpokenPunctuation returned, call after call

vars == <<sess, apiKey, budget, input, output>>

\* A connection slot before its 'connection' event
Fresh ==
  [ mode        |-> "none",     \* mode of the handshake: echo | stream
    ws          |-> "NONE",     \* client socket: NONE | OPEN | CLOSING | CLOSED
    wsDestroyed |-> FALSE,      \* terminate() destroyed the client's socket
    isAlive     |-> FALSE,      \* ws.isAlive
    dg          |-> "NONE",     \* dgWs.readyState: NONE | CONNECTING | OPEN | CLOSING | CLOSED
    dgPeer      |-> FALSE,      \* the recognizer's side of dgWs has ended
    dgOpen      |-> FALSE,      \* let dgOpen
    dgTimeout   |-> "none",     \* the handshake timer: none | armed | cleared | fired
    dgAbort     |-> FALSE,      \* an aborted handshake whose error and close are due
    punct       |-> "none",     \* dgParams punctuate: none | false | true
    encoding    |-> "none",     \* dgParams encoding: none | opus | linear16
    sample_rate |-> 0,          \* dgParams sample_rate (0: no dgParams)
    req         |-> [url |-> FALSE, mode |-> "", enc |-> "", sr |-> <<>>,
                     punct |-> ""], \* history: the request, where recorded
    out         |-> <<>>,       \* every ws.send call: the message, and whether ws was open
    toDg        |-> <<>>,       \* every chunk handed to dgWs.send
    rx          |-> <<>>,       \* history: the frames received from the client
    up          |-> <<>>,       \* history: the messages received from the recognizer
    sweptSilent |-> FALSE,      \* history: a sweep found isAlive false
    acked       |-> TRUE,       \* history: no probe since the last pong (or the connection)
    dgEv        |-> <<>>,       \* history: the 'error' and 'close' events of dgWs
    dgCloseCalls   |-> 0,       \* history: calls of dgWs.close()
    dgCloseEffects |-> 0 ]      \* history: calls of dgWs.close() that acted

\* ------------------------------------------------------------------------
\* The calls into the ws library
\* ------------------------------------------------------------------------

\* WsSend transmitting on a socket whose closing handshake has begun
WsSendWhileClosing(s, m) ==
  [s EXCEPT !.out = Append(@, [m |-> m, ok |-> s.ws \in {"OPEN", "CLOSING"}])]

\* ws.send(JSON.stringify(m)) on the client socket: transmitted when the
\* socket is open, dropped without an exception when it is closing or closed.
WsSend(s, m) == [s EXCEPT !.out = Append(@, [m |-> m, ok |-> s.ws = "OPEN"])]

\* ws.close(...) on the client socket: starts the closing handshake of an
\* open socket, does nothing otherwise.
WsClose(s) == IF s.ws = "OPEN" THEN [s EXCEPT !.ws = "CLOSING"] ELSE s

\* ws.terminate(): destroys the socket; its 'close' event follows.
WsTerminate(s) ==
  IF s.ws \in {"OPEN", "CLOSING"}
    THEN [s EXCEPT !.ws = "CLOSING", !.wsDestroyed = TRUE]
    ELSE s

\* dgWs.close(): aborts a handshake in progress (the socket then emits
\* 'error' and 'close' on the next tick), starts the closing handshake of an
\* open socket, does nothing on a closing or closed one.
DgClose(s) ==
  LET t == [s EXCEPT !.dgCloseCalls = @ + 1] IN
  CASE s.dg = "CONNECTING" ->
         [t EXCEPT !.dg = "CLOSING", !.dgAbort = TRUE, !.dgCloseEffects = @ + 1]
    [] s.dg = "OPEN" ->
         [t EXCEPT !.dg = "CLOSING", !.dgCloseEffects = @ + 1]
    [] OTHER -> t

\* dgWs.send(chunk) on the open upstream socket
DgSend(s, chunk) == [s EXCEPT !.toDg = Append(@, chunk.data)]

\* clearTimeout(dgTimeout)
ClearTimeout(s) ==
  IF s.dgTimeout = "armed" THEN [s EXCEPT !.dgTimeout = "cleared"] ELSE s

\* ------------------------------------------------------------------------
\* The handlers of wss.on("connection", ...)
\* ------------------------------------------------------------------------

\* DgOnOpen announcing ready before and after it sets the flag
DgOnOpenReadyTwice(s) ==
  WsSend(WsSend([ClearTimeout(s) EXCEPT !.dgOpen = TRUE], ReadyMsg), ReadyMsg)

\* DgOnOpen leaving the handshake timer armed
DgOnOpenKeepsTimer(s) ==
  WsSend([s EXCEPT !.dgOpen = TRUE], ReadyMsg)

\* dgWs.on('open', ...)
DgOnOpen(s) ==
  WsSend([ClearTimeout(s) EXCEPT !.dgOpen = TRUE], ReadyMsg)

\* DgOnError telling the client of the error without closing its socket
DgOnErrorKeepsClient(s) ==
  WsSend(ClearTimeout(s), ErrorDgMsg)

\* dgWs.on('error', ...)
DgOnError(s) ==
  WsClose(WsSend(ClearTimeout(s), ErrorDgMsg))

\* dgWs.on('close', ...)
DgOnClose(s) == WsSend(s, DoneMsg)

\* DgOnMessage relaying the recognizer's text as it came and taking only
\* is_final for the finality flag
DgOnMessageRaw(s, m) ==
  IF ~m.json THEN s
  ELSE IF m.type # "Results" THEN s
  ELSE LET transcript == IF m.alt THEN m.transcript ELSE <<>>
       IN  IF Trim(transcript) # <<>>
             THEN WsSend(s, TranscriptMsg(transcript, m.is_final))
             ELSE s

\* DgOnMessage taking a message it cannot read, or one that is no result,
\* for a failure of the upstream
DgOnMessageFatal(s, m) ==
  IF ~m.json THEN WsClose(WsSend(s, ErrorDgMsg))
  ELSE IF m.type # "Results" THEN WsClose(WsSend(s, ErrorDgMsg))
  ELSE LET transcript == IF m.alt THEN m.transcript ELSE <<>>
           isFinal    == m.is_final \/ m.speech_final
       IN  IF Trim(transcript) # <<>>
             THEN WsSend(s, TranscriptMsg(applySpokenPunctuation(transcript), isFinal))
             ELSE s

\* DgOnMessage closing the upstream socket when the client socket it sends
\* to is not open
DgOnMessageClosesOnFailedSend(s, m) ==
  IF ~m.json THEN s
  ELSE IF m.type # "Results" THEN s
  ELSE LET transcript == IF m.alt THEN m.transcript ELSE <<>>
           isFinal    == m.is_final \/ m.speech_final
           t == WsSend(s, TranscriptMsg(applySpokenPunctuation(transcript), isFinal))
       IN  IF Trim(transcript) # <<>>
             THEN IF s.ws = "OPEN" THEN t ELSE DgClose(t)
             ELSE s

\* DgOnMessage passing results on only while the upstream socket is open
DgOnMessageOnlyWhileOpen(s, m) ==
  IF s.dg # "OPEN" THEN s
  ELSE IF ~m.json THEN s
  ELSE IF m.type # "Results" THEN s
  ELSE LET transcript == IF m.alt THEN m.transcript ELSE <<>>
           isFinal    == m.is_final \/ m.speech_final
       IN  IF Trim(transcript) # <<>>
             THEN WsSend(s, TranscriptMsg(applySpokenPunctuation(transcript), isFinal))
             ELSE s

\* dgWs.on('message', ...)
DgOnMessage(s, m) ==
  IF ~m.json THEN s
  ELSE IF m.type # "Results" THEN s
  ELSE LET transcript == IF m.alt THEN m.transcript ELSE <<>>
           isFinal    == m.is_final \/ m.speech_final
       IN  IF Trim(transcript) # <<>>
             THEN WsSend(s, TranscriptMsg(applySpokenPunctuation(transcript), isFinal))
             ELSE s

\* the data of the frames of rx received before dgOpen was set
RECURSIVE EarlyAudio(_)
EarlyAudio(rx) ==
  IF rx = <<>> THEN <<>>
  ELSE IF ~Head(rx).ready /\ Head(rx).chunk.isBinary
         THEN <<Head(rx).chunk.data>> \o EarlyAudio(Tail(rx))
         ELSE EarlyAudio(Tail(rx))

\* WsOnMessage keeping the frames that came before the upstream was ready
\* and sending them ahead of the first frame it forwards
WsOnMessageQueued(s, chunk) ==
  IF ~s.dgOpen THEN s
  ELSE IF chunk.isBinary \/ chunk.isBuffer
         THEN IF s.dg = "OPEN"
                THEN IF s.toDg = <<>>
                       THEN [s EXCEPT !.toDg = EarlyAudio(s.rx) \o <<chunk.data>>]
                       ELSE DgSend(s, chunk)
                ELSE s
  ELSE IF chunk.data = "FINISH" THEN DgClose(s)
  ELSE s

\* WsOnMessage without the early return on !dgOpen
WsOnMessageNoGate(s, chunk) ==
  IF chunk.isBinary \/ chunk.isBuffer
    THEN IF s.dg = "OPEN" THEN DgSend(s, chunk) ELSE s
  ELSE IF chunk.data = "FINISH" THEN DgClose(s)
  ELSE s

\* WsOnMessage sending audio without looking at dgWs.readyState
WsOnMessageNoStateCheck(s, chunk) ==
  IF ~s.dgOpen THEN s
  ELSE IF chunk.isBinary \/ chunk.isBuffer THEN DgSend(s, chunk)
  ELSE IF chunk.data = "FINISH" THEN DgClose(s)
  ELSE s

\* ws.on('message', (chunk, isBinary) => ...) of stream mode
WsOnMessage(s, chunk) ==
  IF ~s.dgOpen THEN s
  ELSE IF chunk.isBinary \/ chunk.isBuffer
         THEN IF s.dg = "OPEN" THEN DgSend(s, chunk) ELSE s
  ELSE IF chunk.data = "FINISH" THEN DgClose(s)
  ELSE s

\* WsOnClose leaving the upstream socket alone
WsOnCloseKeepsUpstream(s) == s

\* ws.on('close', ...) of stream mode
WsOnClose(s) == DgClose(s)

\* the callback of dgTimeout = setTimeout(..., 5000)
DgTimeoutFired(s) ==
  LET t == [s EXCEPT !.dgTimeout = "fired"]
  IN  IF ~t.dgOpen THEN WsClose(DgClose(t)) ELSE t

\* EchoOnMessage treating the text FINISH as a control message
EchoOnMessageFinish(s, chunk) ==
  IF ~chunk.isBinary /\ chunk.data = "FINISH" THEN s
  ELSE WsSend(s, EchoMsg(chunk.data))

\* ws.on('message', (buf) => ...) of echo mode
EchoOnMessage(s, chunk) == WsSend(s, EchoMsg(chunk.data))

\* heartbeat leaving the flag as it is
heartbeatForgets(s) == s

\* function heartbeat() { this.isAlive = true; }
heartbeat(s) == [s EXCEPT !.isAlive = TRUE]

\* SweepClient closing a silent client with ws.close(), which waits for the
\* answer of a client that does not answer, instead of terminating it
SweepClientClosesGently(s) ==
  IF s.isAlive = FALSE THEN WsClose(s)
  ELSE [s EXCEPT !.isAlive = FALSE]

\* the body of the sweeper's loop for one client of wss.clients
SweepClient(s) ==
  IF s.isAlive = FALSE THEN WsTerminate(s)
  ELSE [s EXCEPT !.isAlive = FALSE]

\* let punct = 'false'; if (punctParam === 'true') punct = 'true'
PunctOf(punctParam) == IF punctParam = "true" THEN "true" ELSE "false"

\* OnConnection without the test of the API key
OnConnectionNoKeyTest(s, mode, punctParam, key) ==
  LET t == [s EXCEPT !.ws = "OPEN", !.isAlive = TRUE, !.mode = mode] IN
  IF mode = "stream"
    THEN [t EXCEPT !.dg = "CONNECTING", !.dgOpen = FALSE, !.dgTimeout = "armed",
                   !.punct = PunctOf(punctParam)]
    ELSE WsSend(t, WelcomeMsg)

\* wss.on("connection", (ws, req) => ...) up to the registration of the
\* handlers; mode and punctParam are the handshake's mode and punct
\* parameters, key whether the API key is configured.
OnConnection(s, mode, punctParam, key) ==
  LET t == [s EXCEPT !.ws = "OPEN", !.isAlive = TRUE, !.mode = mode] IN
  IF mode = "stream"
    THEN IF ~key
           THEN WsClose(WsSend(t, ErrorKeyMsg))
           ELSE [t EXCEPT !.dg = "CONNECTING", !.dgOpen = FALSE, !.dgTimeout = "armed",
                          !.punct = PunctOf(punctParam)]
    ELSE WsSend(t, WelcomeMsg)

\* What the handler reads of req.url: url says whether new URL(req.url, ...)
\* accepts it; mode, enc and punct are the values of the query parameters
\* ("" when absent), sr the characters of the sr parameter.
Request(url, mode, enc, sr, punct) ==
  [url |-> url, mode |-> mode, enc |-> enc, sr |-> sr, punct |-> punct]

\* let mode = 'echo'; mode = url.searchParams.get('mode') || 'echo', in a try
ModeOf(q) == IF q.url /\ q.mode # "" THEN q.mode ELSE "echo"

\* let enc = 'opus'; enc = url.searchParams.get('enc') || 'opus', in a try
EncOf(q) == IF q.url /\ q.enc # "" THEN q.enc ELSE "opus"

\* the value of the digit characters
DigitValue ==
  [c \in DigitChars |->
     CASE c = "0" -> 0 [] c = "1" -> 1 [] c = "2" -> 2 [] c = "3" -> 3
       [] c = "4" -> 4 [] c = "5" -> 5 [] c = "6" -> 6 [] c = "7" -> 7
       [] c = "8" -> 8 [] c = "9" -> 9]

\* the value of the digits of str from index i on, up to the first character
\* that is no digit, after the value acc of the digits read so far
RECURSIVE DigitsFrom(_, _, _)
DigitsFrom(str, i, acc) ==
  IF i > Len(str) \/ str[i] \notin DigitChars THEN acc
  ELSE DigitsFrom(str, i + 1, acc * 10 + DigitValue[str[i]])

\* parseInt(str, 10): leading whitespace, a sign, then the digits up to the
\* first character that is no digit; NaN when there is no digit
ParseInt(str) ==
  LET b == RunEnd(str, 1)
      signed == b <= Len(str) /\ str[b] \in {"+", "-"}
      d == IF signed THEN b + 1 ELSE b
  IN  IF d > Len(str) \/ str[d] \notin DigitChars
        THEN [nan |-> TRUE, val |-> 0]
        ELSE [nan |-> FALSE,
              val |-> IF signed /\ str[b] = "-" THEN 0 - DigitsFrom(str, d, 0)
                      ELSE DigitsFrom(str, d, 0)]

\* let sr = 48000
DefaultSampleRate == 48000

\* SrOf taking every number parseInt returns
SrOfUnchecked(q) ==
  IF ~q.url THEN DefaultSampleRate
  ELSE LET srParam == ParseInt(q.sr)
       IN  IF ~srParam.nan THEN srParam.val ELSE DefaultSampleRate

\* const srParam = parseInt(url.searchParams.get('sr') || '', 10);
\* if (!Number.isNaN(srParam) && srParam > 0) sr = srParam, in a try
SrOf(q) ==
  IF ~q.url THEN DefaultSampleRate
  ELSE LET srParam == ParseInt(q.sr)
       IN  IF ~srParam.nan /\ srParam.val > 0 THEN srParam.val ELSE DefaultSampleRate

\* wss.on("connection", ...) from the request on: the parameters are read,
\* and a stream session with a key builds dgParams from enc and sr
OnRequest(s, q, key) ==
  LET t == OnConnection(s, ModeOf(q), IF q.url THEN q.punct ELSE "", key)
  IN  IF t.dg = "NONE" THEN t
      ELSE [t EXCEPT !.encoding = IF EncOf(q) = "pcm16" THEN "linear16" ELSE "opus",
                     !.sample_rate = SrOf(q)]

\* the 'error' event of dgWs, with its record in dgEv: the state of the
\* client socket and the number of ws.send calls when it arrived
DgErrorEvent(s) ==
  [DgOnError(s) EXCEPT !.dgEv = Append(@,
     [ev |-> "error", ws |-> s.ws, ready |-> s.dgOpen, n |-> Len(s.out)])]

\* the 'close' event of dgWs, with its record in dgEv
DgCloseEvent(s) ==
  [DgOnClose(s) EXCEPT !.dgEv = Append(@,
     [ev |-> "close", ws |-> s.ws, ready |-> s.dgOpen, n |-> Len(s.out)])]

\* The next tick after dgWs.close() aborted a handshake: the socket emits
\* 'error' and then 'close', before any other event is handled.
AbortedHandshake(s) ==
  IF s.dgAbort
    THEN DgCloseEvent([DgErrorEvent([s EXCEPT !.dgAbort = FALSE]) EXCEPT !.dg = "CLOSED"])
    ELSE s

\* whether the stream handlers were registered on this connection
Relayed(s) == s.mode = "stream" /\ s.dg # "NONE"

\* the clients of wss.clients: from 'connection' until the socket's 'close'
InClients(s) == s.ws \in {"OPEN", "CLOSING"}

\* ------------------------------------------------------------------------
\* Events
\* ------------------------------------------------------------------------

Init ==
  /\ sess = [i \in {1} |-> Fresh]
  /\ apiKey \in BOOLEAN
  /\ budget = MaxEvents
  /\ input = <<>>
  /\ output = <<>>

\* the values of the handshake's punct parameter: absent, "true", another
PunctParams == {"", "true", "yes"}

\* a client connects to /ws with the given mode and punct parameter
Connect(i, mode, punctParam) ==
  /\ sess[i].ws = "NONE"
  /\ sess' = [sess EXCEPT ![i] =
       OnRequest(@, Request(TRUE, mode, "", <<>>, punctParam), apiKey)]
  /\ UNCHANGED <<apiKey, budget, input, output>>

\* the 'message' event of the client socket, with its record in rx
ClientMessage(s, chunk) ==
  LET t == IF Relayed(s) THEN WsOnMessage(s, chunk)
           ELSE IF s.mode \notin {"none", "stream"} THEN EchoOnMessage(s, chunk)
           ELSE s
  IN  [t EXCEPT !.rx = Append(@,
         [chunk  |-> chunk,
          ready  |-> s.dgOpen,
          dg     |-> s.dg,
          fwd    |-> Len(t.toDg) # Len(s.toDg),
          sent   |-> Len(t.out) # Len(s.out),
          same   |-> t = s,
          closed |-> t.dgCloseCalls # s.dgCloseCalls])]

ClientFrame(i, chunk) ==
  /\ InClients(sess[i]) /\ ~sess[i].wsDestroyed
  /\ budget > 0
  /\ sess' = [sess EXCEPT ![i] = AbortedHandshake(ClientMessage(@, chunk))]
  /\ budget' = budget - 1
  /\ UNCHANGED <<apiKey, input, output>>

\* the 'pong' event of the client socket
Pong(i) ==
  /\ InClients(sess[i]) /\ ~sess[i].wsDestroyed
  /\ sess' = [sess EXCEPT ![i] = [heartbeat(@) EXCEPT !.acked = TRUE]]
  /\ UNCHANGED <<apiKey, budget, input, output>>

\* the 'close' event of the client socket: the client closed, the closing
\* handshake ended, or the destroyed socket closed
ClientClosed(i) ==
  /\ InClients(sess[i])
  /\ sess' = [sess EXCEPT ![i] =
       LET t == [@ EXCEPT !.ws = "CLOSED"]
       IN  IF Relayed(t) THEN AbortedHandshake(WsOnClose(t)) ELSE t]
  /\ UNCHANGED <<apiKey, budget, input, output>>

\* the 'open' event of the upstream socket
UpstreamOpen(i) ==
  /\ sess[i].dg = "CONNECTING"
  /\ sess' = [sess EXCEPT ![i] = DgOnOpen([@ EXCEPT !.dg = "OPEN"])]
  /\ UNCHANGED <<apiKey, budget, input, output>>

\* the handshake of the upstream socket fails: 'error', then 'close'
UpstreamRefused(i) ==
  /\ sess[i].dg = "CONNECTING"
  /\ sess' = [sess EXCEPT ![i] =
       DgCloseEvent([DgErrorEvent([@ EXCEPT !.dg = "CLOSING", !.dgPeer = TRUE])
                       EXCEPT !.dg = "CLOSED"])]
  /\ UNCHANGED <<apiKey, budget, input, output>>

\* the open upstream socket fails (an invalid frame): it starts closing and
\* emits 'error'; its 'close' follows
UpstreamError(i) ==
  /\ sess[i].dg = "OPEN"
  /\ sess' = [sess EXCEPT ![i] =
       DgErrorEvent([@ EXCEPT !.dg = "CLOSING", !.dgPeer = TRUE])]
  /\ UNCHANGED <<apiKey, budget, input, output>>

\* the recognizer closes the open upstream socket, or its connection ends
UpstreamClosing(i) ==
  /\ sess[i].dg = "OPEN"
  /\ sess' = [sess EXCEPT ![i] = [@ EXCEPT !.dg = "CLOSING", !.dgPeer = TRUE]]
  /\ UNCHANGED <<apiKey, budget, input, output>>

\* the 'close' event of the upstream socket
UpstreamClosed(i) ==
  /\ sess[i].dg = "CLOSING"
  /\ sess' = [sess EXCEPT ![i] = DgCloseEvent([@ EXCEPT !.dg = "CLOSED", !.dgPeer = TRUE])]
  /\ UNCHANGED <<apiKey, budget, input, output>>

\* the 'message' event of the upstream socket, with its record in up
UpstreamMessage(s, m) ==
  LET t == DgOnMessage(s, m)
  IN  [t EXCEPT !.up = Append(@,
         [m |-> m, sent |-> Len(t.out) # Len(s.out), same |-> t = s,
          ws |-> s.ws, dg |-> s.dg, n |-> Len(s.out),
          only |-> [t EXCEPT !.out = s.out] = s])]

UpstreamFrame(i, m) ==
  /\ sess[i].dg \in {"OPEN", "CLOSING"} /\ ~sess[i].dgPeer
  /\ budget > 0
  /\ sess' = [sess EXCEPT ![i] = UpstreamMessage(@, m)]
  /\ budget' = budget - 1
  /\ UNCHANGED <<apiKey, input, output>>

\* the handshake timer expires
Timeout(i) ==
  /\ sess[i].dgTimeout = "armed"
  /\ sess' = [sess EXCEPT ![i] = AbortedHandshake(DgTimeoutFired(@))]
  /\ UNCHANGED <<apiKey, budget, input, output>>

\* the sweeper's visit of one client, with its record in sweptSilent
SweepVisit(s) ==
  [SweepClient(s) EXCEPT !.sweptSilent = @ \/ ~s.isAlive, !.acked = FALSE]

\* Sweeper terminating every client as soon as one of them is silent
SweeperTerminatesAll(ss) ==
  [i \in DOMAIN ss |->
     IF ~InClients(ss[i]) THEN ss[i]
     ELSE IF \E j \in DOMAIN ss : InClients(ss[j]) /\ ~ss[j].isAlive
            THEN [WsTerminate(ss[i]) EXCEPT !.sweptSilent = @ \/ ~ss[i].isAlive,
                                            !.acked = FALSE]
            ELSE SweepVisit(ss[i])]

\* for (const ws of wss.clients) { ... }: each registered client is visited
Sweeper(ss) ==
  [i \in DOMAIN ss |-> IF InClients(ss[i]) THEN SweepVisit(ss[i]) ELSE ss[i]]

\* one run of the setInterval callback over wss.clients
Sweep ==
  /\ \E i \in DOMAIN sess : InClients(sess[i])
  /\ sess' = Sweeper(sess)
  /\ UNCHANGED <<apiKey, budget, input, output>>

Next ==
  \/ \E i \in DOMAIN sess, mode \in {"echo", "stream"}, p \in PunctParams :
       Connect(i, mode, p)
  \/ \E i \in DOMAIN sess, chunk \in ClientFrames : ClientFrame(i, chunk)
  \/ \E i \in DOMAIN sess : Pong(i)
  \/ \E i \in DOMAIN sess : ClientClosed(i)
  \/ \E i \in DOMAIN sess : UpstreamOpen(i)
  \/ \E i \in DOMAIN sess : UpstreamRefused(i)
  \/ \E i \in DOMAIN sess : UpstreamError(i)
  \/ \E i \in DOMAIN sess : UpstreamClosing(i)
  \/ \E i \in DOMAIN sess : UpstreamClosed(i)
  \/ \E i \in DOMAIN sess, m \in UpstreamMessages : UpstreamFrame(i, m)
  \/ \E i \in DOMAIN sess : Timeout(i)
  \/ Sweep

Spec == Init /\ [][Next]_vars

\* the 'close' event of a client socket the server has closed or terminated
ClientCloseDelivered(i) == sess[i].ws = "CLOSING" /\ ClientClosed(i)

\* The relay with its transports and timers doing their part: a closing
\* upstream socket emits 'close', a client socket the server closed or
\* terminated emits 'close', an armed handshake timer fires, and the
\* sweeper's interval keeps running.  Nothing is assumed of the client or of
\* the recognizer: neither has to close, answer, or send.
SpecLive ==
  /\ Init /\ [][Next]_vars
  /\ WF_vars(\E i \in DOMAIN sess : UpstreamClosed(i))
  /\ WF_vars(\E i \in DOMAIN sess : ClientCloseDelivered(i))
  /\ WF_vars(\E i \in DOMAIN sess : Timeout(i))
  /\ WF_vars(Sweep)

\* two clients connected to the same server
InitMulti ==
  /\ sess = [i \in {1, 2} |-> Fresh]
  /\ apiKey \in BOOLEAN
  /\ budget = MaxEventsMulti
  /\ input = <<>>
  /\ output = <<>>

SpecMulti == InitMulti /\ [][Next]_vars

\* the values of the handshake's mode, enc and sr parameters: absent, the
\* documented ones, others
ModeParams == {"", "echo", "stream", "bogus"}
EncParams == {"", "opus", "pcm16", "bogus"}
SrParams ==
  { <<>>, <<"1","6","0","0","0">>, <<"0">>, <<"-","5">>, <<"a","b","c">>,
    <<"8","0","0","0","x">> }

\* the requests a client may make
Requests ==
  { Request(u, m, e, r, p) :
      u \in BOOLEAN, m \in ModeParams, e \in EncParams, r \in SrParams,
      p \in PunctParams }

\* a client connects to /ws with the request q
ConnectRequest(i, q) ==
  /\ sess[i].ws = "NONE"
  /\ sess' = [sess EXCEPT ![i] = [OnRequest(@, q, apiKey) EXCEPT !.req = q]]
  /\ UNCHANGED <<apiKey, budget, input, output>>

NextHandshake == \E i \in DOMAIN sess, q \in Requests : ConnectRequest(i, q)

\* the handshake of one connection, whatever its request
SpecHandshake == Init /\ [][NextHandshake]_vars

\* a caller of applySpokenPunctuation, with no connection
InitNormalize ==
  /\ sess = [i \in {1} |-> Fresh]
  /\ apiKey = FALSE
  /\ budget = 0
  /\ input \in Inputs
  /\ output = <<>>

\* applySpokenPunctuation(input)
Normalize ==
  /\ output = <<>>
  /\ output' = <<applySpokenPunctuation(input)>>
  /\ UNCHANGED <<sess, apiKey, budget, input>>

\* applySpokenPunctuation applied to what it returned
NormalizeAgain ==
  /\ Len(output) = 1
  /\ output' = Append(output, applySpokenPunctuation(output[1]))
  /\ UNCHANGED <<sess, apiKey, budget, input>>

NextNormalize == Normalize \/ NormalizeAgain

SpecNormalize == InitNormalize /\ [][NextNormalize]_vars

\* ------------------------------------------------------------------------
\* What the claims speak of
\* ------------------------------------------------------------------------

Sids == DOMAIN sess

IsDelivered(e) == e.ok
IsErrorSend(e) == e.m.type = "error"
IsReadySend(e) == e.m.type = "ready"
IsTranscriptSend(e) == e.m.type = "transcript"
IsForwarded(e) == e.fwd
IsDoneSend(e) == e.m.type = "done"
IsDgError(e) == e.ev = "error"

\* the messages the client socket transmitted
Delivered(s) == SelectSeq(s.out, IsDelivered)

\* the data of a sequence of rx records
Payloads(q) == [k \in 1..Len(q) |-> q[k].chunk.data]

\* a text frame "FINISH"
IsFinish(chunk) == ~chunk.isBinary /\ chunk.data = "FINISH"

\* ------------------------------------------------------------------------
\* C1
\* ------------------------------------------------------------------------

\* C1: a stream session that starts while no API key is configured has sent
\* the client exactly one message, the key error, transmitted, and no ready;
\* its client socket is no longer open; it never has an upstream socket, a
\* handshake timer or a chunk sent upstream.
C1_MissingKeyClosesAtOnce ==
  \A i \in Sids :
    (sess[i].mode = "stream" /\ ~apiKey) =>
      /\ sess[i].out = <<[m |-> ErrorKeyMsg, ok |-> TRUE]>>
      /\ sess[i].ws \in {"CLOSING", "CLOSED"}
      /\ sess[i].dg = "NONE"
      /\ sess[i].dgTimeout = "none"
      /\ sess[i].toDg = <<>>
      /\ sess[i].dgCloseCalls = 0

\* a keyless stream session whose client sent frames before its socket closed
C1_Witness ==
  \E i \in Sids :
    /\ sess[i].mode = "stream" /\ ~apiKey
    /\ sess[i].ws = "CLOSED"
    /\ Len(sess[i].rx) >= 2

\* ------------------------------------------------------------------------
\* C2
\* ------------------------------------------------------------------------

\* C2: once the handshake timer has fired on a session whose upstream never
\* became ready, the upstream socket is closed, the client socket is no
\* longer open, and the client was transmitted exactly one error message.
C2_TimeoutSendsOneError ==
  \A i \in Sids :
    (sess[i].dgTimeout = "fired" /\ ~sess[i].dgOpen) =>
      /\ sess[i].dg = "CLOSED"
      /\ sess[i].ws \in {"CLOSING", "CLOSED"}
      /\ Len(SelectSeq(Delivered(sess[i]), IsErrorSend)) = 1

\* ------------------------------------------------------------------------
\* C3
\* ------------------------------------------------------------------------

\* C3: the chunks sent upstream are, in order, the data of the received
\* frames that were forwarded when they arrived, and no frame that arrived
\* before the upstream became ready is among them: nothing is sent upstream
\* while dgOpen is false, and nothing is sent later for an earlier frame.
C3_EarlyFramesNeverForwarded ==
  \A i \in Sids :
    /\ sess[i].toDg = Payloads(SelectSeq(sess[i].rx, IsForwarded))
    /\ \A k \in 1..Len(sess[i].rx) : sess[i].rx[k].fwd => sess[i].rx[k].ready
    /\ ~sess[i].dgOpen => sess[i].toDg = <<>>

\* an audio frame arrived before ready, and a later one was forwarded
C3_Witness ==
  \E i \in Sids :
    /\ Len(sess[i].rx) >= 2
    /\ sess[i].rx[1].chunk.isBinary /\ ~sess[i].rx[1].ready
    /\ sess[i].rx[2].chunk.isBinary /\ sess[i].rx[2].fwd
    /\ sess[i].toDg = <<sess[i].rx[2].chunk.data>>

\* ------------------------------------------------------------------------
\* C4
\* ------------------------------------------------------------------------

IsRelayedAudio(e) == e.chunk.isBinary /\ e.ready /\ e.dg = "OPEN"

\* C4: the chunks sent upstream are exactly the binary frames received while
\* the session was relaying and the upstream socket was open, in order.
C4_UpstreamGetsExactlyTheAudio ==
  \A i \in Sids :
    sess[i].toDg = Payloads(SelectSeq(sess[i].rx, IsRelayedAudio))

\* ------------------------------------------------------------------------
\* C5
\* ------------------------------------------------------------------------

\* the upstream records that hold a result with a non-blank transcript
IsSpokenResult(e) ==
  e.m.json /\ e.m.type = "Results" /\ e.m.alt /\ Trim(e.m.transcript) # <<>>

\* the normalized form of each transcript the recognizer may send
NormalizedText ==
  [t \in { m.transcript : m \in UpstreamMessages } |-> applySpokenPunctuation(t)]

\* the transcript message a result stands for
TranscriptOf(m) ==
  TranscriptMsg(NormalizedText[m.transcript], m.is_final \/ m.speech_final)

\* C5: the transcript messages sent to the client are, one for one and in
\* order, the upstream results whose transcript is not blank, each with the
\* normalized text and is_final = is_final or speech_final; an upstream
\* message caused a ws.send exactly when it is such a result.
C5_OneTranscriptPerSpokenResult ==
  \A i \in Sids :
    LET sent == SelectSeq(sess[i].out, IsTranscriptSend)
        res  == SelectSeq(sess[i].up, IsSpokenResult)
    IN  /\ Len(sent) = Len(res)
        /\ \A k \in 1..Len(sent) : sent[k].m = TranscriptOf(res[k].m)
        /\ \A k \in 1..Len(sess[i].up) :
             sess[i].up[k].sent <=> IsSpokenResult(sess[i].up[k])

\* a blank result was passed over, and "a comma" with speech_final alone
\* reached the client as the final transcript "a,"
C5_Witness ==
  \E i \in Sids :
    /\ \E k \in 1..Len(sess[i].up) :
         /\ sess[i].up[k].m.type = "Results"
         /\ sess[i].up[k].m.transcript = BlankText
         /\ ~sess[i].up[k].sent
    /\ \E k \in 1..Len(sess[i].up) :
         /\ sess[i].up[k].m.transcript = SpokenText
         /\ sess[i].up[k].m.speech_final
    /\ \E k \in 1..Len(sess[i].out) :
         /\ sess[i].out[k].ok
         /\ sess[i].out[k].m = TranscriptMsg(<<"a", ",">>, TRUE)

\* ------------------------------------------------------------------------
\* C6
\* ------------------------------------------------------------------------

\* C6: no relayed session has its upstream socket closed while its client
\* socket is still open, nor its client socket closed while its upstream
\* socket is still connecting or open.
C6_LegsCloseTogether ==
  \A i \in Sids :
    Relayed(sess[i]) =>
      /\ ~(sess[i].dg = "CLOSED" /\ sess[i].ws = "OPEN")
      /\ ~(sess[i].ws = "CLOSED" /\ sess[i].dg \in {"CONNECTING", "OPEN"})

\* ------------------------------------------------------------------------
\* C7
\* ------------------------------------------------------------------------

\* C7: once the client socket of a relayed session has closed, dgWs.close()
\* has been called and the upstream socket is closing or closed; and however
\* many times dgWs.close() was called (FINISH, client close, timeout), it
\* acted on the upstream socket at most once.
C7_UpstreamClosedOnce ==
  \A i \in Sids :
    Relayed(sess[i]) =>
      /\ sess[i].dgCloseEffects <= 1
      /\ sess[i].dgCloseEffects <= sess[i].dgCloseCalls
      /\ sess[i].ws = "CLOSED" =>
           /\ sess[i].dgCloseCalls >= 1
           /\ sess[i].dg \in {"CLOSING", "CLOSED"}

\* the client closed while relaying after a FINISH had closed the upstream:
\* two calls of dgWs.close(), one effect
C7_Witness ==
  \E i \in Sids :
    /\ sess[i].dgOpen
    /\ sess[i].ws = "CLOSED"
    /\ sess[i].dgCloseCalls = 2
    /\ sess[i].dgCloseEffects = 1

\* ------------------------------------------------------------------------
\* C8
\* ------------------------------------------------------------------------

\* C8: a registered client whose liveness flag a sweep finds still false
\* (cleared by the sweep before, no pong since) is terminated by that sweep:
\* its socket is destroyed and no longer open.  Once the socket of such a
\* stream client has closed, dgWs.close() has been called and the upstream
\* socket is closing or closed.
C8_SilentClientTerminated ==
  \A i \in Sids :
    sess[i].sweptSilent =>
      /\ sess[i].wsDestroyed
      /\ sess[i].ws \in {"CLOSING", "CLOSED"}
      /\ (Relayed(sess[i]) /\ sess[i].ws = "CLOSED") =>
           (sess[i].dgCloseCalls >= 1 /\ sess[i].dg \in {"CLOSING", "CLOSED"})

\* a relaying client was terminated by the sweeper, its socket closed, and
\* that close closed the open upstream socket
C8_Witness ==
  \E i \in Sids :
    /\ sess[i].sweptSilent
    /\ sess[i].dgOpen
    /\ sess[i].wsDestroyed /\ sess[i].ws = "CLOSED"
    /\ sess[i].dgCloseCalls = 1 /\ sess[i].dgCloseEffects = 1

\* ------------------------------------------------------------------------
\* C9
\* ------------------------------------------------------------------------

\* C9: every text frame "FINISH" received while relaying called dgWs.close()
\* and was not sent upstream.
C9_FinishClosesUpstream ==
  \A i \in Sids :
    \A k \in 1..Len(sess[i].rx) :
      (Relayed(sess[i]) /\ sess[i].rx[k].ready /\ IsFinish(sess[i].rx[k].chunk)) =>
        (sess[i].rx[k].closed /\ ~sess[i].rx[k].fwd)

\* ------------------------------------------------------------------------
\* C10
\* ------------------------------------------------------------------------

\* C10 as claimed: every text frame "FINISH" received before the upstream
\* became ready called dgWs.close().
C10_EarlyFinishClosesUpstream ==
  \A i \in Sids :
    \A k \in 1..Len(sess[i].rx) :
      (Relayed(sess[i]) /\ ~sess[i].rx[k].ready /\ IsFinish(sess[i].rx[k].chunk)) =>
        sess[i].rx[k].closed

\* C10 as amended: a frame received before the upstream became ready, a
\* FINISH included, calls dgWs.close() never; as long as the session is not
\* ready and dgWs.close() was not called, the upstream socket is still
\* connecting.
C10_EarlyFinishDropped ==
  \A i \in Sids :
    /\ \A k \in 1..Len(sess[i].rx) :
         ~sess[i].rx[k].ready => ~sess[i].rx[k].closed
    /\ (Relayed(sess[i]) /\ ~sess[i].dgOpen /\ sess[i].dgCloseCalls = 0
          /\ sess[i].dgTimeout = "armed") => sess[i].dg = "CONNECTING"

\* a FINISH text frame, handed over as a string, arrived while the upstream
\* was connecting, and the upstream then became ready and open
C10_Witness ==
  \E i \in Sids :
    /\ Len(sess[i].rx) >= 1
    /\ IsFinish(sess[i].rx[1].chunk) /\ ~sess[i].rx[1].chunk.isBuffer
    /\ ~sess[i].rx[1].ready /\ sess[i].rx[1].dg = "CONNECTING"
    /\ sess[i].dgOpen /\ sess[i].dg = "OPEN"

\* ------------------------------------------------------------------------
\* C11
\* ------------------------------------------------------------------------

\* C11: when the upstream socket emits 'error' while the client socket is
\* open (the session is awaiting the upstream or relaying), the handler's
\* ws.send is the error message and it is transmitted, it is the only error
\* message the client gets, nothing is transmitted to the client after it (no
\* done, ready or transcript), and both sockets are closing or closed.
C11_UpstreamErrorEndsSession ==
  \A i \in Sids :
    \A k \in 1..Len(sess[i].dgEv) :
      (sess[i].dgEv[k].ev = "error" /\ sess[i].dgEv[k].ws = "OPEN") =>
        LET n == sess[i].dgEv[k].n IN
        /\ Len(sess[i].out) > n
        /\ sess[i].out[n + 1] = [m |-> ErrorDgMsg, ok |-> TRUE]
        /\ \A j \in (n + 2)..Len(sess[i].out) : ~sess[i].out[j].ok
        /\ Len(SelectSeq(Delivered(sess[i]), IsErrorSend)) = 1
        /\ sess[i].ws \in {"CLOSING", "CLOSED"}
        /\ sess[i].dg \in {"CLOSING", "CLOSED"}

\* a relaying session whose upstream failed: the client got ready and then
\* the error; the done of the upstream's close was not transmitted; both
\* sockets are closed
C11_Witness ==
  \E i \in Sids :
    /\ sess[i].dgOpen
    /\ sess[i].out = << [m |-> ReadyMsg, ok |-> TRUE],
                        [m |-> ErrorDgMsg, ok |-> TRUE],
                        [m |-> DoneMsg, ok |-> FALSE] >>
    /\ sess[i].ws = "CLOSED" /\ sess[i].dg = "CLOSED"

\* ------------------------------------------------------------------------
\* C12
\* ------------------------------------------------------------------------

\* C12: once the upstream socket of a relaying session has emitted 'close'
\* while the client socket was open, the client was transmitted exactly one
\* done message and the session is closed: the client socket is closing or
\* closed.  A done message is transmitted only in a session whose upstream
\* emitted no 'error'.
C12_UpstreamCloseSendsDoneAndEnds ==
  \A i \in Sids :
    /\ \A k \in 1..Len(sess[i].dgEv) :
         (sess[i].dgEv[k].ev = "close" /\ sess[i].dgEv[k].ready
            /\ sess[i].dgEv[k].ws = "OPEN") =>
           /\ Len(SelectSeq(Delivered(sess[i]), IsDoneSend)) = 1
           /\ sess[i].ws \in {"CLOSING", "CLOSED"}
    /\ SelectSeq(Delivered(sess[i]), IsDoneSend) # <<>> =>
         SelectSeq(sess[i].dgEv, IsDgError) = <<>>

\* ------------------------------------------------------------------------
\* C13
\* ------------------------------------------------------------------------

\* C13: the text of each transcript message is the normalized transcript of
\* its result in a session that did not ask for the upstream's punctuation,
\* and the transcript as the upstream sent it in a session that asked for it
\* (punct=true).
C13_PunctSkipsNormalizer ==
  \A i \in Sids :
    LET sent == SelectSeq(sess[i].out, IsTranscriptSend)
        res  == SelectSeq(sess[i].up, IsSpokenResult)
    IN  /\ Len(sent) = Len(res)
        /\ \A k \in 1..Len(sent) :
             sent[k].m.text =
               IF sess[i].punct = "true" THEN res[k].m.transcript
               ELSE NormalizedText[res[k].m.transcript]

\* ------------------------------------------------------------------------
\* C14
\* ------------------------------------------------------------------------

\* C14: a text frame other than "FINISH" received by a stream session was
\* not sent upstream, called no dgWs.close() and caused no ws.send; every
\* frame that was sent upstream is a binary frame.
C14_OtherTextIgnored ==
  \A i \in Sids :
    Relayed(sess[i]) =>
      \A k \in 1..Len(sess[i].rx) :
        LET e == sess[i].rx[k] IN
        /\ (~e.chunk.isBinary /\ e.chunk.data # "FINISH") =>
             (~e.fwd /\ ~e.closed /\ ~e.sent)
        /\ e.fwd => e.chunk.isBinary

\* ------------------------------------------------------------------------
\* C15
\* ------------------------------------------------------------------------

\* an upstream message that JSON.parse rejects, or whose type is not Results
IsNoResult(m) == ~m.json \/ m.type # "Results"

\* C15: the handler of an upstream message that is malformed, or is no
\* result, changed nothing: it sent no message to the client and left both
\* sockets and the ready flag as they were.
C15_MalformedUpstreamDropped ==
  \A i \in Sids :
    \A k \in 1..Len(sess[i].up) :
      IsNoResult(sess[i].up[k].m) =>
        (sess[i].up[k].same /\ ~sess[i].up[k].sent)

\* after a malformed message the session went on relaying: the next result
\* reached the client as a transcript, and both sockets are open
C15_Witness ==
  \E i \in Sids :
    /\ Len(sess[i].up) = 2
    /\ ~sess[i].up[1].m.json
    /\ IsSpokenResult(sess[i].up[2]) /\ sess[i].up[2].sent
    /\ sess[i].out = << [m |-> ReadyMsg, ok |-> TRUE],
                        [m |-> TranscriptOf(sess[i].up[2].m), ok |-> TRUE] >>
    /\ sess[i].ws = "OPEN" /\ sess[i].dg = "OPEN"

\* ------------------------------------------------------------------------
\* C16
\* ------------------------------------------------------------------------

\* the state of a session the claim speaks of
Core(s) ==
  [mode |-> s.mode, dgOpen |-> s.dgOpen, ws |-> s.ws, dg |-> s.dg,
   toDg |-> s.toDg, out |-> s.out]

\* C16: a step that changes one session (its missing key, timeout, upstream
\* error or close, client close, termination by the sweeper, or any other
\* event of it) leaves the mode, ready flag, sockets, forwarded chunks and
\* sent messages of every other session as they were, and leaves it in
\* wss.clients if it was there; the one step that touches two sessions is
\* the sweep, which terminates another session only for that session's own
\* silence.
C16_FailuresStayInTheirSession ==
  [][ \A i, j \in Sids :
        (i # j /\ sess'[i] # sess[i]) =>
          \/ /\ Core(sess'[j]) = Core(sess[j])
             /\ InClients(sess'[j]) = InClients(sess[j])
          \/ /\ InClients(sess[j]) /\ ~sess[j].isAlive
             /\ sess'[j] = SweepVisit(sess[j]) ]_vars

\* one session was terminated by the sweeper and is closed, while the other,
\* swept too, is relaying with both sockets open and a chunk sent upstream
C16_Witness ==
  \E i, j \in Sids :
    /\ i # j
    /\ sess[i].sweptSilent /\ sess[i].wsDestroyed /\ sess[i].ws = "CLOSED"
    /\ sess[j].dgOpen /\ sess[j].ws = "OPEN" /\ sess[j].dg = "OPEN"
    /\ ~sess[j].isAlive /\ ~sess[j].sweptSilent
    /\ Len(sess[j].toDg) = 1

\* ------------------------------------------------------------------------
\* C17
\* ------------------------------------------------------------------------

\* the sentence as the specification gives it normalized
ExampleNormalized ==
  <<"H","e","a","r","t"," ","i","s"," ","e","n","l","a","r","g","e","d",
    "."," ","n","o"," ","o","t","h","e","r"," ","f","i","n","d","i","n",
    "g","s",","," ","n","o","r","m","a","l"," ","o","t","h","e","r","w",
    "i","s","e",".">>

\* C17: applySpokenPunctuation of "Heart is enlarged full stop no other
\* findings comma normal otherwise period" returns "Heart is enlarged. no
\* other findings, normal otherwise."
C17_ExampleSentence ==
  (input = ExampleText /\ Len(output) >= 1) => output[1] = ExampleNormalized

\* the sentence was normalized
C17_Witness ==
  input = ExampleText /\ Len(output) >= 1 /\ output[1] = ExampleNormalized

\* ------------------------------------------------------------------------
\* C18
\* ------------------------------------------------------------------------

\* C18: applySpokenPunctuation applied to what it returned returns the same
\* text, for every input.
C18_NormalizeIdempotent ==
  Len(output) = 2 => output[2] = output[1]

\* ------------------------------------------------------------------------
\* C19
\* ------------------------------------------------------------------------

\* the documented mapping of spoken phrases to symbols
Documented ==
  << [phrase |-> <<"f","u","l","l"," ","s","t","o","p">>,
      symbol |-> <<".">>],
     [phrase |-> <<"p","e","r","i","o","d">>,
      symbol |-> <<".">>],
     [phrase |-> <<"c","o","m","m","a">>,
      symbol |-> <<",">>],
     [phrase |-> <<"q","u","e","s","t","i","o","n"," ","m","a","r","k">>,
      symbol |-> <<"?">>],
     [phrase |-> <<"e","x","c","l","a","m","a","t","i","o","n"," ","m","a","r","k">>,
      symbol |-> <<"!">>],
     [phrase |-> <<"e","x","c","l","a","m","a","t","i","o","n"," ","p","o","i","n","t">>,
      symbol |-> <<"!">>],
     [phrase |-> <<"c","o","l","o","n">>,
      symbol |-> <<":">>],
     [phrase |-> <<"s","e","m","i","c","o","l","o","n">>,
      symbol |-> <<";">>],
     [phrase |-> <<"s","e","m","i"," ","c","o","l","o","n">>,
      symbol |-> <<";">>],
     [phrase |-> <<"s","e","m","i","-","c","o","l","o","n">>,
      symbol |-> <<";">>],
     [phrase |-> <<"n","e","w"," ","l","i","n","e">>,
      symbol |-> <<"\n">>],
     [phrase |-> <<"n","e","w"," ","p","a","r","a","g","r","a","p","h">>,
      symbol |-> <<"\n","\n">>] >>

\* the normalized form of "a <phrase> b" for a phrase that stands for
\* symbol: the space before a punctuation symbol is removed and one space
\* follows it; no space is kept around newlines
ExpectedInContext(symbol) ==
  IF symbol[1] = "\n" THEN <<"a">> \o symbol \o <<"b">>
  ELSE <<"a">> \o symbol \o <<" ", "b">>

\* C19: applySpokenPunctuation of "a <phrase> b" is "a" and "b" around the
\* documented symbol of the phrase, for every phrase of the mapping:
\* "semicolon", "semi colon" and "semi-colon" give ';', "full stop" and
\* "period" give '.', "new paragraph" gives two newlines.
C19_PhrasesMapToSymbols ==
  Len(output) >= 1 =>
    \A k \in 1..Len(Documented) :
      input = InContext(Documented[k].phrase) =>
        output[1] = ExpectedInContext(Documented[k].symbol)

\* ------------------------------------------------------------------------
\* C20
\* ------------------------------------------------------------------------

\* C20: applySpokenPunctuation of the empty string, and of null, returns
\* its input as it is.
C20_EmptyAndNullUnchanged ==
  (input \in {<<>>, NullText} /\ Len(output) >= 1) => output[1] = input

\* null went through applySpokenPunctuation and came back
C20_Witness ==
  input = NullText /\ output = <<NullText, NullText>>

\* ------------------------------------------------------------------------
\* C21
\* ------------------------------------------------------------------------

\* a stream session that has ended: its key was missing, its handshake
\* timed out, its upstream emitted 'error' or 'close', or its client socket
\* closed
SessionClosed(s) ==
  /\ s.mode = "stream"
  /\ s.ws # "NONE"
  /\ \/ s.dg = "NONE"
     \/ s.dgTimeout = "fired" /\ ~s.dgOpen
     \/ s.dgEv # <<>>
     \/ s.ws = "CLOSED"

\* C21: no event of a session that has ended transmits a message to the
\* client or sends a chunk upstream, and the session stays ended, with its
\* mode and ready flag as they were.
C21_ClosedIgnoresEvents ==
  [][ \A i \in Sids :
        SessionClosed(sess[i]) =>
          /\ SessionClosed(sess'[i])
          /\ Delivered(sess'[i]) = Delivered(sess[i])
          /\ sess'[i].toDg = sess[i].toDg
          /\ sess'[i].dgOpen = sess[i].dgOpen
          /\ sess'[i].mode = sess[i].mode ]_vars

\* the upstream of a relaying session closed and the client got its done;
\* an audio frame that arrived afterwards went nowhere
C21_Witness ==
  \E i \in Sids :
    /\ sess[i].out = << [m |-> ReadyMsg, ok |-> TRUE], [m |-> DoneMsg, ok |-> TRUE] >>
    /\ Len(sess[i].rx) = 1
    /\ sess[i].rx[1].chunk.isBinary /\ sess[i].rx[1].dg = "CLOSED"
    /\ ~sess[i].rx[1].fwd
    /\ sess[i].toDg = <<>>

\* ------------------------------------------------------------------------
\* C22
\* ------------------------------------------------------------------------

C23_FailedSendsDropped ==
  \A i \in Sids :
    /\ \A k \in 1..Len(sess[i].rx) :
         LET e == sess[i].rx[k] IN
         (Relayed(sess[i]) /\ e.ready /\ (e.chunk.isBinary \/ e.chunk.isBuffer)
            /\ e.dg # "OPEN") => e.same
    /\ \A k \in 1..Len(sess[i].up) :
         LET e == sess[i].up[k] IN
         (e.sent /\ e.ws # "OPEN") =>
           /\ e.only
           /\ Len(sess[i].out) > e.n
           /\ ~sess[i].out[e.n + 1].ok

\* a result arrived for a client whose socket the sweeper had destroyed: the
\* transcript was not transmitted, and the upstream socket is still open
C23_Witness ==
  \E i \in Sids :
    /\ Len(sess[i].up) = 1
    /\ sess[i].up[1].sent /\ sess[i].up[1].ws = "CLOSING"
    /\ sess[i].out = << [m |-> ReadyMsg, ok |-> TRUE],
                        [m |-> TranscriptOf(sess[i].up[1].m), ok |-> FALSE] >>
    /\ sess[i].dg = "OPEN" /\ sess[i].dgCloseCalls = 0

\* ------------------------------------------------------------------------
\* C24
\* ------------------------------------------------------------------------

\* C24: a sweep terminates every registered client, echo or stream, whose
\* liveness flag is false, and clears the flag of every other one, leaving
\* its socket alone; a registered client that has answered since its last
\* probe has its flag true, so the next sweep will not terminate it; only a
\* client that a sweep found silent is ever terminated.
C24_SweepTerminatesOnlyTheSilent ==
  /\ [](\A i \in Sids :
          /\ (InClients(sess[i]) /\ sess[i].acked) => sess[i].isAlive
          /\ sess[i].wsDestroyed => sess[i].sweptSilent)
  /\ [][ Sweep =>
          \A i \in Sids :
            InClients(sess[i]) =>
              IF ~sess[i].isAlive
                THEN /\ sess'[i].wsDestroyed
                     /\ sess'[i].ws \in {"CLOSING", "CLOSED"}
                ELSE /\ ~sess'[i].isAlive
                     /\ sess'[i].ws = sess[i].ws
                     /\ sess'[i].wsDestroyed = sess[i].wsDestroyed ]_vars

\* an echo client that had been talking was found silent by a sweep and
\* terminated, and its socket closed
C24_Witness ==
  \E i \in Sids :
    /\ sess[i].mode = "echo"
    /\ Len(sess[i].rx) >= 1
    /\ sess[i].sweptSilent /\ sess[i].wsDestroyed
    /\ sess[i].ws = "CLOSED"

\* ------------------------------------------------------------------------
\* C25
\* ------------------------------------------------------------------------

\* the sample rate documented for each value of sr: the number it parses
\* to when that is a positive integer, the default otherwise
ExpectedRate ==
  [r \in SrParams |->
     CASE r = <<"1","6","0","0","0">> -> 16000
       [] r = <<"8","0","0","0","x">> -> 8000
       [] OTHER -> 48000]

\* C25: whatever the request, a connection whose parameters do not ask for
\* stream mode (no mode, another mode, a URL that does not parse) is an open
\* echo session that was sent the welcome and no error; one that asks for
\* stream mode with a key configured is open, was sent no error, and its
\* upstream parameters are linear16 only for enc=pcm16 and opus otherwise,
\* the sample rate sr parses to when that is a positive integer and 48000
\* otherwise, punctuation on only for punct=true.
C25_HandshakeFallsBackToDefaults ==
  \A i \in Sids :
    sess[i].ws # "NONE" =>
      LET q == sess[i].req
          stream == q.url /\ q.mode = "stream"
      IN  /\ ~stream =>
               /\ sess[i].ws = "OPEN"
               /\ sess[i].out = <<[m |-> WelcomeMsg, ok |-> TRUE]>>
               /\ sess[i].dg = "NONE"
          /\ (stream /\ apiKey) =>
               /\ sess[i].ws = "OPEN"
               /\ sess[i].out = <<>>
               /\ sess[i].dg = "CONNECTING"
               /\ sess[i].encoding = IF q.enc = "pcm16" THEN "linear16" ELSE "opus"
               /\ sess[i].sample_rate = ExpectedRate[q.sr]
               /\ sess[i].punct = IF q.punct = "true" THEN "true" ELSE "false"

\* a stream session asked for with an unknown encoding, a sample rate that
\* is no number and punct=yes runs on opus at 48000 without punctuation
C25_Witness ==
  \E i \in Sids :
    /\ sess[i].ws = "OPEN" /\ sess[i].dg = "CONNECTING"
    /\ sess[i].req = Request(TRUE, "stream", "bogus", <<"a","b","c">>, "yes")
    /\ sess[i].encoding = "opus"
    /\ sess[i].sample_rate = 48000
    /\ sess[i].punct = "false"

\* ------------------------------------------------------------------------
\* C26
\* ------------------------------------------------------------------------

\* the echo replies to the frames received, in arrival order
EchoReplies(q) ==
  [k \in 1..Len(q) |-> [m |-> EchoMsg(q[k].chunk.data), ok |-> TRUE]]

\* C26: what an echo session has sent its client is the welcome followed by
\* one echo reply per message received, in arrival order, each carrying the
\* text of its message and each sent on the open socket; the session has no
\* upstream connection, no handshake timer and has sent nothing upstream.
C26_EchoRepliesOnePerMessage ==
  \A i \in Sids :
    sess[i].mode = "echo" =>
      /\ sess[i].out = <<[m |-> WelcomeMsg, ok |-> TRUE]>> \o EchoReplies(sess[i].rx)
      /\ sess[i].dg = "NONE"
      /\ sess[i].dgTimeout = "none"
      /\ sess[i].dgEv = <<>>
      /\ sess[i].toDg = <<>>
      /\ sess[i].dgCloseCalls = 0

\* an echo session that received the texts "hello" and "FINISH" and echoed both
C26_Witness ==
  \E i \in Sids :
    /\ sess[i].mode = "echo"
    /\ Len(sess[i].rx) = 2
    /\ ~sess[i].rx[1].chunk.isBinary /\ sess[i].rx[1].chunk.data = "hello"
    /\ ~sess[i].rx[2].chunk.isBinary /\ sess[i].rx[2].chunk.data = "FINISH"
    /\ Len(sess[i].out) = 3
    /\ sess[i].out[2].m = EchoMsg("hello")
    /\ sess[i].out[3].m = EchoMsg("FINISH")

\* ------------------------------------------------------------------------
\* C27
\* ------------------------------------------------------------------------

\* C27: in a stream session ready is sent at most once, and exactly when the
\* upstream handshake has completed; once it has, ready is the first message
\* of the session, ahead of every transcript and of done; a session whose
\* handshake never completed is sent no transcript, and a done only after
\* its upstream connection failed.
C27_ReadyOnceAndFirst ==
  \A i \in Sids :
    (sess[i].mode = "stream" /\ sess[i].ws # "NONE") =>
      /\ Len(SelectSeq(sess[i].out, IsReadySend)) <= 1
      /\ (Len(SelectSeq(sess[i].out, IsReadySend)) = 1) = sess[i].dgOpen
      /\ sess[i].dgOpen =>
           /\ sess[i].dg \in {"OPEN", "CLOSING", "CLOSED"}
           /\ IsReadySend(sess[i].out[1])
      /\ ~sess[i].dgOpen =>
           /\ SelectSeq(sess[i].out, IsTranscriptSend) = <<>>
           /\ SelectSeq(sess[i].out, IsDoneSend) # <<>> =>
                \E k \in 1..Len(sess[i].dgEv) : sess[i].dgEv[k].ev = "error"

\* a session that was sent ready, then a transcript, then done when the
\* recognizer closed
C27_Witness ==
  \E i \in Sids :
    /\ sess[i].dgOpen /\ sess[i].rx = <<>>
    /\ Len(sess[i].out) = 3
    /\ IsReadySend(sess[i].out[1]) /\ sess[i].out[1].ok
    /\ IsTranscriptSend(sess[i].out[2]) /\ sess[i].out[2].ok
    /\ IsDoneSend(sess[i].out[3]) /\ sess[i].out[3].ok

\* ------------------------------------------------------------------------
\* C28
\* ------------------------------------------------------------------------

\* C28: a session whose upstream connection became ready has its handshake
\* timer cleared, never fired; a session whose upstream connection reported
\* an error has no armed timer left; the timer fires only in a session that
\* never became ready; and a timer that was cleared or has fired stays so,
\* so the timeout acts at most once.
C28_TimeoutDisarmed ==
  /\ [](\A i \in Sids :
          /\ sess[i].dgOpen => sess[i].dgTimeout = "cleared"
          /\ SelectSeq(sess[i].dgEv, IsDgError) # <<>> => sess[i].dgTimeout # "armed"
          /\ sess[i].dgTimeout = "fired" =>
               /\ ~sess[i].dgOpen
               /\ sess[i].dgCloseEffects = 1)
  /\ [][\A i \in Sids :
          sess[i].dgTimeout \in {"cleared", "fired"} =>
            sess'[i].dgTimeout = sess[i].dgTimeout]_vars

\* a session that became ready and went on relaying two audio frames with
\* its timer cleared
C28_Witness ==
  \E i \in Sids :
    /\ sess[i].dgOpen /\ sess[i].dgTimeout = "cleared"
    /\ sess[i].ws = "OPEN" /\ sess[i].dg = "OPEN"
    /\ Len(sess[i].rx) = 2 /\ Len(sess[i].toDg) = 2

\* ------------------------------------------------------------------------
\* C29
\* ------------------------------------------------------------------------

\* an audio frame that arrived in a ready session whose upstream socket was
\* no longer open
IsLateAudio(e) == e.chunk.isBinary /\ e.ready /\ e.dg # "OPEN"

\* C29: the ready flag, once set, stays set in every later state; a session
\* whose upstream socket has left OPEN after becoming ready still has the
\* flag set; and an audio frame arriving in such a session is not sent
\* upstream and changes nothing, so what went upstream is exactly the
\* frames that arrived while the upstream socket was open.
C29_ReadyKeptAudioBlockedAfterClose ==
  /\ [](\A i \in Sids :
          /\ (sess[i].dg \in {"CLOSING", "CLOSED"}
                 /\ SelectSeq(sess[i].out, IsReadySend) # <<>>) => sess[i].dgOpen
          /\ \A k \in 1..Len(sess[i].rx) :
               IsLateAudio(sess[i].rx[k]) =>
                 ~sess[i].rx[k].fwd /\ sess[i].rx[k].same
          /\ Len(sess[i].toDg) =
               Len(SelectSeq(sess[i].rx,
                     LAMBDA e : e.ready /\ e.dg = "OPEN"
                                  /\ (e.chunk.isBinary \/ e.chunk.isBuffer))))
  /\ [][\A i \in Sids : sess[i].dgOpen => sess'[i].dgOpen]_vars

\* FINISH closed the upstream socket, its close was delivered, and an audio
\* frame that followed found the flag set and the socket closed
C29_Witness ==
  \E i \in Sids :
    /\ sess[i].dgOpen /\ sess[i].dg = "CLOSED"
    /\ Len(sess[i].rx) = 2
    /\ IsFinish(sess[i].rx[1].chunk) /\ sess[i].rx[1].closed
    /\ sess[i].rx[2].chunk.isBinary /\ sess[i].rx[2].ready
    /\ sess[i].rx[2].dg = "CLOSED" /\ ~sess[i].rx[2].fwd
    /\ sess[i].toDg = <<>>

\* ------------------------------------------------------------------------
\* C30
\* ------------------------------------------------------------------------

\* a closing event has occurred in the stream session s: its client socket
\* is closing or closed (client close, upstream error, sweeper, missing
\* key), its upstream socket is closing or closed (FINISH, upstream error
\* or close), or its handshake timer has fired
HasClosingEvent(s) ==
  /\ s.mode = "stream"
  /\ \/ s.ws \in {"CLOSING", "CLOSED"}
     \/ s.dg \in {"CLOSING", "CLOSED"}
     \/ s.dgTimeout = "fired"

\* both legs of s are closed
BothLegsClosed(s) == s.ws = "CLOSED" /\ s.dg \in {"NONE", "CLOSED"}

\* C30: once a closing event has occurred in a stream session, the session
\* eventually has both legs closed, the transports delivering their close
\* events.
C30_ClosingEventLeadsToClosed ==
  (\E i \in Sids : HasClosingEvent(sess[i]))
    ~> (\A i \in Sids : HasClosingEvent(sess[i]) => BothLegsClosed(sess[i]))

\* a FINISH that closed the upstream socket of a relaying session is
\* followed by the done message, or the client socket has left OPEN
FinishLeadsToDone ==
  (\E i \in Sids : \E k \in 1..Len(sess[i].rx) : sess[i].rx[k].closed)
    ~> (\A i \in Sids :
          \/ SelectSeq(sess[i].out, IsDoneSend) # <<>>
          \/ sess[i].ws # "OPEN")

====
